---- MODULE Spec2Model ----
(***************************************************************************)
(* Story-selection and lifecycle engine of ralph-cli.                      *)
(*                                                                         *)
(* The state is the content of the PRD files in the working directory      *)
(* (active.prd.json, archive.prd.json, done.json), the value of the        *)
(* RALPH_PRD_FILE_ARCHIVE environment variable, and the value returned (or *)
(* the error thrown) by the last tool call.  Every tool call is one        *)
(* action: it loads, computes and persists before it returns.              *)
(***************************************************************************)
EXTENDS Integers, Sequences, FiniteSets, TLC

VARIABLES files, envArchive, result, now, writer, callers

vars == <<files, envArchive, result, now, writer, callers>>

(***************************************************************************)
(* Bounds of the model.                                                    *)
(***************************************************************************)
\* The number of failure documents (context dumps) that exist to be recorded.
MaxRefs == 2

(***************************************************************************)
(* File names and values the tools are called with.                        *)
(***************************************************************************)
ActiveFile == "active.prd.json"
DefaultArchive == "archive.prd.json"
DoneFile == "done.json"
NoFile == "none"
FileNames == {ActiveFile, DefaultArchive, DoneFile}
ArchiveNames == {DefaultArchive, DoneFile}

Priorities == {"critical", "high", "medium", "low"}
\* contextFilePath values: the failure documents, by number.
Refs == 1..MaxRefs
\* The instants new Date() returns: an earlier and a later one.
Times == {1, 2}
FirstTime == CHOOSE t \in Times : \A u \in Times : t <= u
LastTime == CHOOSE t \in Times : \A u \in Times : u <= t

(***************************************************************************)
(* types.ts: Story and PrdDocument.  completedAt and blockedAt are 0 when  *)
(* the optional field is absent; hasAttempts tells whether the optional    *)
(* attempts array is present.                                              *)
(***************************************************************************)
Story(id, priority, passes, blocked, deps) ==
    [id |-> id, priority |-> priority, passes |-> passes,
     completedAt |-> 0, blocked |-> blocked, blockedAt |-> 0,
     dependencies |-> deps, hasAttempts |-> FALSE, attempts |-> <<>>]

NoStory == Story("", "low", FALSE, FALSE, <<>>)

PrdDocument(stories) == [kind |-> "doc", stories |-> stories]
AbsentFile == [kind |-> "absent", stories |-> <<>>]
\* A file that is not valid JSON (a partly written one included).
MalformedFile == [kind |-> "malformed", stories |-> <<>>]
\* Valid JSON without a stories array, as {"foo": []}.
NoStoriesFile == [kind |-> "no_stories", stories |-> <<>>]
\* A file fs.readFile fails on with an error other than ENOENT.
UnreadableFile == [kind |-> "unreadable", stories |-> <<>>]

(***************************************************************************)
(* prd-utils.ts                                                            *)
(***************************************************************************)
\* Variant: archive.prd.json is the archive whether or not it exists.
resolveArchiveFile_always(archiveFile) ==
    IF archiveFile # NoFile THEN archiveFile
    ELSE IF envArchive # NoFile THEN envArchive
    ELSE DefaultArchive

\* resolveArchiveFile: explicit parameter > RALPH_PRD_FILE_ARCHIVE >
\* archive.prd.json if it exists > null.
resolveArchiveFile(archiveFile) ==
    IF archiveFile # NoFile THEN archiveFile
    ELSE IF envArchive # NoFile THEN envArchive
    ELSE IF files[DefaultArchive].kind # "absent" THEN DefaultArchive
    ELSE NoFile

\* readPrdFile: throws unless the file exists, parses and has a stories array.
\* Variant: a document without a stories array reads as an empty one.
readPrdFile_lenient(prdPath) ==
    [ok |-> files[prdPath].kind \in {"doc", "no_stories"},
     stories |-> files[prdPath].stories,
     error |-> CASE files[prdPath].kind \in {"doc", "no_stories"} -> ""
                 [] files[prdPath].kind = "absent" -> "not_found"
                 [] files[prdPath].kind = "malformed" -> "invalid_json"
                 [] OTHER -> "io_error"]

\* error is the kind of the Error thrown: "PRD file not found", "Invalid
\* JSON in PRD file", "Invalid PRD structure", or the error of fs.readFile.
readPrdFile(prdPath) ==
    [ok |-> files[prdPath].kind = "doc", stories |-> files[prdPath].stories,
     error |-> CASE files[prdPath].kind = "doc" -> ""
                 [] files[prdPath].kind = "absent" -> "not_found"
                 [] files[prdPath].kind = "malformed" -> "invalid_json"
                 [] files[prdPath].kind = "no_stories" -> "invalid_structure"
                 [] OTHER -> "io_error"]

\* findStoryIndexById: index of the first story with that id, 0 for -1.
findStoryIndexById(stories, storyId) ==
    IF \E i \in 1..Len(stories) : stories[i].id = storyId
    THEN CHOOSE i \in 1..Len(stories) :
            /\ stories[i].id = storyId
            /\ \A j \in 1..(i - 1) : stories[j].id # storyId
    ELSE 0

\* findStoryById: the first story with that id, or undefined (NoStory).
findStoryById(stories, storyId) ==
    IF findStoryIndexById(stories, storyId) = 0 THEN NoStory
    ELSE stories[findStoryIndexById(stories, storyId)]

(***************************************************************************)
(* find-next.ts                                                            *)
(***************************************************************************)
PRIORITY_ORDER(p) ==
    CASE p = "critical" -> 0
      [] p = "high" -> 1
      [] p = "medium" -> 2
      [] p = "low" -> 3
      [] OTHER -> 999

\* Variant: an id the archive does not hold counts as archived.
isStoryInArchive_lenient(storyId) ==
    LET archivePath == resolveArchiveFile(NoFile) IN
    IF archivePath = NoFile THEN FALSE
    ELSE IF ~readPrdFile(archivePath).ok THEN FALSE
    ELSE LET i == findStoryIndexById(readPrdFile(archivePath).stories, storyId) IN
         IF i = 0 THEN TRUE
         ELSE readPrdFile(archivePath).stories[i].passes = TRUE

isStoryInArchive(storyId) ==
    LET archivePath == resolveArchiveFile(NoFile) IN
    IF archivePath = NoFile THEN FALSE
    ELSE IF ~readPrdFile(archivePath).ok THEN FALSE
    ELSE LET i == findStoryIndexById(readPrdFile(archivePath).stories, storyId) IN
         IF i = 0 THEN FALSE
         ELSE readPrdFile(archivePath).stories[i].passes = TRUE

\* Variant: the archive is consulted before active.
dependencySatisfied_archiveFirst(depId, stories) ==
    LET i == findStoryIndexById(stories, depId) IN
    IF isStoryInArchive(depId) THEN TRUE
    ELSE IF i = 0 THEN FALSE
    ELSE stories[i].passes

\* One turn of the loop over story.dependencies: TRUE to continue with the
\* next dependency, FALSE for "return false".
dependencySatisfied(depId, stories) ==
    LET i == findStoryIndexById(stories, depId) IN
    IF i = 0 THEN isStoryInArchive(depId)
    ELSE stories[i].passes

RECURSIVE depsLoop(_, _, _)
depsLoop(deps, k, stories) ==
    IF k > Len(deps) THEN TRUE
    ELSE IF ~dependencySatisfied(deps[k], stories) THEN FALSE
    ELSE depsLoop(deps, k + 1, stories)

\* Variant: dependencies are not looked at.
areDependenciesSatisfied_ignored(story, stories) == TRUE

areDependenciesSatisfied(story, stories) ==
    IF Len(story.dependencies) = 0 THEN TRUE
    ELSE depsLoop(story.dependencies, 1, stories)

\* The candidate filter of findNextStory, in list order.
RECURSIVE candidatesFrom(_, _)
candidatesFrom(stories, k) ==
    IF k > Len(stories) THEN <<>>
    ELSE IF stories[k].passes THEN candidatesFrom(stories, k + 1)
    ELSE IF stories[k].blocked THEN candidatesFrom(stories, k + 1)
    ELSE IF areDependenciesSatisfied(stories[k], stories)
         THEN <<stories[k]>> \o candidatesFrom(stories, k + 1)
    ELSE candidatesFrom(stories, k + 1)

\* Variant: an element goes before the elements it ties with.
RECURSIVE insertByPriority_unstable(_, _)
insertByPriority_unstable(sorted, s) ==
    IF sorted = <<>> THEN <<s>>
    ELSE IF PRIORITY_ORDER(Head(sorted).priority) - PRIORITY_ORDER(s.priority) >= 0
         THEN <<s>> \o sorted
    ELSE <<Head(sorted)>> \o insertByPriority_unstable(Tail(sorted), s)

\* candidates.sort((a, b) => rank(a) - rank(b)): Array.prototype.sort is
\* stable, so an element goes after every element that does not compare
\* greater than it.
RECURSIVE insertByPriority(_, _)
insertByPriority(sorted, s) ==
    IF sorted = <<>> THEN <<s>>
    ELSE IF PRIORITY_ORDER(Head(sorted).priority) - PRIORITY_ORDER(s.priority) > 0
         THEN <<s>> \o sorted
    ELSE <<Head(sorted)>> \o insertByPriority(Tail(sorted), s)

RECURSIVE sortByPriority(_, _)
sortByPriority(cands, k) ==
    IF k = 0 THEN <<>>
    ELSE insertByPriority(sortByPriority(cands, k - 1), cands[k])

Count(stories, P(_)) == Cardinality({i \in 1..Len(stories) : P(stories[i])})

\* The value a tool call returns; the fields an operation does not set keep
\* the values of NoResult.
NoResult ==
    [op |-> "none", ok |-> TRUE, id |-> "", available |-> FALSE,
     reason |-> "", story |-> NoStory, attemptCount |-> 0,
     previousAttempts |-> <<>>, mode |-> "", archive |-> NoFile, ref |-> 0,
     satisfied |-> FALSE, error |-> "", complete |-> FALSE,
     totalStories |-> 0, completedStories |-> 0, blockedStories |-> 0,
     remainingStories |-> 0, found |-> FALSE, prdType |-> "",
     incompleteStories |-> 0, storiesWaitingOnDependencies |-> 0,
     message |-> ""]

\* Variant: without the try/catch around the body.
findNextStory_throwing ==
    LET prd == readPrdFile(ActiveFile) IN
    IF ~prd.ok
    THEN [NoResult EXCEPT !.op = "findNext", !.ok = FALSE, !.reason = "read",
                          !.error = prd.error]
    ELSE LET candidates == candidatesFrom(prd.stories, 1) IN
         IF Len(candidates) = 0
         THEN LET totalStories == Len(prd.stories)
                  completedStories ==
                      Cardinality({i \in 1..Len(prd.stories) : prd.stories[i].passes})
                  blockedStories ==
                      Cardinality({i \in 1..Len(prd.stories) : prd.stories[i].blocked})
                  incompleteCount == totalStories - completedStories - blockedStories
                  waitingOnDeps ==
                      Cardinality({i \in 1..Len(prd.stories) :
                          /\ ~prd.stories[i].passes
                          /\ ~prd.stories[i].blocked
                          /\ ~areDependenciesSatisfied(prd.stories[i], prd.stories)})
              IN [NoResult EXCEPT
                     !.op = "findNext",
                     !.reason = "no_stories_available",
                     !.totalStories = totalStories,
                     !.completedStories = completedStories,
                     !.blockedStories = blockedStories,
                     !.incompleteStories = incompleteCount,
                     !.storiesWaitingOnDependencies = waitingOnDeps,
                     !.message =
                         IF incompleteCount = 0
                         THEN "All stories are either completed or blocked"
                         ELSE IF waitingOnDeps > 0
                         THEN "incomplete stories are waiting on dependencies"
                         ELSE "No available stories to work on"]
         ELSE LET story == sortByPriority(candidates, Len(candidates))[1] IN
              [NoResult EXCEPT !.op = "findNext", !.available = TRUE,
                               !.id = story.id, !.story = story,
                               !.attemptCount = Len(story.attempts),
                               !.previousAttempts = story.attempts]

findNextStory ==
    LET prd == readPrdFile(ActiveFile) IN
    IF ~prd.ok
    THEN [NoResult EXCEPT !.op = "findNext", !.reason = "error",
                          !.error = prd.error]
    ELSE LET candidates == candidatesFrom(prd.stories, 1) IN
         IF Len(candidates) = 0
         THEN LET totalStories == Len(prd.stories)
                  completedStories ==
                      Cardinality({i \in 1..Len(prd.stories) : prd.stories[i].passes})
                  blockedStories ==
                      Cardinality({i \in 1..Len(prd.stories) : prd.stories[i].blocked})
                  incompleteCount == totalStories - completedStories - blockedStories
                  waitingOnDeps ==
                      Cardinality({i \in 1..Len(prd.stories) :
                          /\ ~prd.stories[i].passes
                          /\ ~prd.stories[i].blocked
                          /\ ~areDependenciesSatisfied(prd.stories[i], prd.stories)})
              IN [NoResult EXCEPT
                     !.op = "findNext",
                     !.reason = "no_stories_available",
                     !.totalStories = totalStories,
                     !.completedStories = completedStories,
                     !.blockedStories = blockedStories,
                     !.incompleteStories = incompleteCount,
                     !.storiesWaitingOnDependencies = waitingOnDeps,
                     !.message =
                         IF incompleteCount = 0
                         THEN "All stories are either completed or blocked"
                         ELSE IF waitingOnDeps > 0
                         THEN "incomplete stories are waiting on dependencies"
                         ELSE "No available stories to work on"]
         ELSE LET story == sortByPriority(candidates, Len(candidates))[1] IN
              [NoResult EXCEPT !.op = "findNext", !.available = TRUE,
                               !.id = story.id, !.story = story,
                               !.attemptCount = Len(story.attempts),
                               !.previousAttempts = story.attempts]

FindNext ==
    /\ result' = findNextStory
    /\ UNCHANGED <<files, envArchive, now, writer, callers>>

\* The dependency resolver applied to one story of active.prd.json.
ResolveDependencies ==
    \E i \in 1..Len(files[ActiveFile].stories) :
        LET stories == readPrdFile(ActiveFile).stories IN
        /\ readPrdFile(ActiveFile).ok
        /\ result' = [NoResult EXCEPT
                         !.op = "areDependenciesSatisfied",
                         !.id = stories[i].id,
                         !.satisfied = areDependenciesSatisfied(stories[i], stories)]
        /\ UNCHANGED <<files, envArchive, now, writer, callers>>

(***************************************************************************)
(* find-next.ts with a hierarchy of PRD types.  getAllPrdPaths and         *)
(* tryReadPrdFile are not part of the sources at hand: the first is taken  *)
(* to list the PRD types in hierarchy order with their active and archive  *)
(* files, the second to return the document, or null for a file that does  *)
(* not read as one.                                                        *)
(***************************************************************************)
FeatureActive == "feature.active.prd.json"
FeatureArchive == "feature.archive.prd.json"

getAllPrdPaths ==
    <<[type |-> "default", active |-> ActiveFile, archive |-> DefaultArchive],
      [type |-> "feature", active |-> FeatureActive, archive |-> FeatureArchive]>>

tryReadPrdFile(path) ==
    [ok |-> files[path].kind = "doc", stories |-> files[path].stories]

isStoryInAnyArchive(storyId) ==
    \E k \in 1..Len(getAllPrdPaths) :
        LET archivePrd == tryReadPrdFile(getAllPrdPaths[k].archive)
            i == findStoryIndexById(archivePrd.stories, storyId)
        IN archivePrd.ok /\ i # 0 /\ archivePrd.stories[i].passes = TRUE

\* The loop over allPrds.values() for one dependency, from the k-th type
\* on: "passes", "fails" for a dependency found in an active PRD, "absent".
RECURSIVE findInActivePrds(_, _)
findInActivePrds(depId, k) ==
    IF k > Len(getAllPrdPaths) THEN "absent"
    ELSE LET prd == tryReadPrdFile(getAllPrdPaths[k].active)
             i == findStoryIndexById(prd.stories, depId)
         IN IF prd.ok /\ i # 0
            THEN IF prd.stories[i].passes THEN "passes" ELSE "fails"
            ELSE findInActivePrds(depId, k + 1)

RECURSIVE hierarchyDepsLoop(_, _)
hierarchyDepsLoop(deps, k) ==
    IF k > Len(deps) THEN TRUE
    ELSE IF findInActivePrds(deps[k], 1) = "fails" THEN FALSE
    ELSE IF findInActivePrds(deps[k], 1) = "absent" /\ ~isStoryInAnyArchive(deps[k])
         THEN FALSE
    ELSE hierarchyDepsLoop(deps, k + 1)

hierarchyAreDependenciesSatisfied(story) ==
    IF Len(story.dependencies) = 0 THEN TRUE
    ELSE hierarchyDepsLoop(story.dependencies, 1)

RECURSIVE hierarchyCandidatesFrom(_, _)
hierarchyCandidatesFrom(stories, k) ==
    IF k > Len(stories) THEN <<>>
    ELSE IF stories[k].passes THEN hierarchyCandidatesFrom(stories, k + 1)
    ELSE IF stories[k].blocked THEN hierarchyCandidatesFrom(stories, k + 1)
    ELSE IF hierarchyAreDependenciesSatisfied(stories[k])
         THEN <<stories[k]>> \o hierarchyCandidatesFrom(stories, k + 1)
    ELSE hierarchyCandidatesFrom(stories, k + 1)

\* The candidates of the k-th PRD type; none when its active file was not
\* loaded.
typeCandidates(k) ==
    LET prd == tryReadPrdFile(getAllPrdPaths[k].active) IN
    IF prd.ok THEN hierarchyCandidatesFrom(prd.stories, 1) ELSE <<>>

\* Variant: the types are gone through from the last one.
firstTypeWithCandidates_backwards(k) ==
    LET withCandidates == {j \in k..Len(getAllPrdPaths) : Len(typeCandidates(j)) > 0}
    IN IF withCandidates = {} THEN 0
       ELSE CHOOSE j \in withCandidates : \A h \in withCandidates : h <= j

\* for (const { type } of prdPaths): the first type, from the k-th on, that
\* has candidates; 0 when the loop ends without one.
firstTypeWithCandidates(k) ==
    LET withCandidates == {j \in k..Len(getAllPrdPaths) : Len(typeCandidates(j)) > 0}
    IN IF withCandidates = {} THEN 0
       ELSE CHOOSE j \in withCandidates : \A h \in withCandidates : j <= h

hierarchyFindNextStory ==
    LET k == firstTypeWithCandidates(1) IN
    IF \A j \in 1..Len(getAllPrdPaths) : ~tryReadPrdFile(getAllPrdPaths[j].active).ok
    THEN [NoResult EXCEPT !.op = "findNextInHierarchy", !.reason = "no_prd_files"]
    ELSE IF k = 0
    THEN [NoResult EXCEPT !.op = "findNextInHierarchy",
                          !.reason = "no_stories_available"]
    ELSE LET candidates == typeCandidates(k)
             story == sortByPriority(candidates, Len(candidates))[1]
         IN [NoResult EXCEPT !.op = "findNextInHierarchy", !.available = TRUE,
                             !.prdType = getAllPrdPaths[k].type,
                             !.id = story.id, !.story = story,
                             !.attemptCount = Len(story.attempts),
                             !.previousAttempts = story.attempts]

HierarchyFindNext ==
    /\ result' = hierarchyFindNextStory
    /\ UNCHANGED <<files, envArchive, now, writer, callers>>

(***************************************************************************)
(* get-details.ts and get-attempts.ts                                      *)
(***************************************************************************)
\* Variant: the story is returned without counting its attempts.
getStoryDetails_uncounted(storyId) ==
    LET prd == readPrdFile(ActiveFile)
        story == findStoryById(prd.stories, storyId)
    IN IF ~prd.ok
       THEN [NoResult EXCEPT !.op = "getDetails", !.id = storyId,
                             !.error = prd.error]
       ELSE IF findStoryIndexById(prd.stories, storyId) = 0
            THEN [NoResult EXCEPT !.op = "getDetails", !.id = storyId,
                                  !.error = "not_found"]
       ELSE [NoResult EXCEPT !.op = "getDetails", !.id = storyId,
                             !.found = TRUE, !.story = story]

getStoryDetails(storyId) ==
    LET prd == readPrdFile(ActiveFile)
        story == findStoryById(prd.stories, storyId)
        attempts == IF story.hasAttempts THEN story.attempts ELSE <<>>
    IN IF ~prd.ok
       THEN [NoResult EXCEPT !.op = "getDetails", !.id = storyId,
                             !.error = prd.error]
       ELSE IF findStoryIndexById(prd.stories, storyId) = 0
            THEN [NoResult EXCEPT !.op = "getDetails", !.id = storyId,
                                  !.error = "not_found"]
       ELSE [NoResult EXCEPT !.op = "getDetails", !.id = storyId,
                             !.found = TRUE, !.story = story,
                             !.attemptCount = Len(attempts),
                             !.previousAttempts = attempts]

getStoryAttempts(storyId) ==
    LET prd == readPrdFile(ActiveFile)
        story == findStoryById(prd.stories, storyId)
        attempts == IF story.hasAttempts THEN story.attempts ELSE <<>>
    IN IF ~prd.ok
       THEN [NoResult EXCEPT !.op = "getAttempts", !.id = storyId,
                             !.error = prd.error]
       ELSE IF findStoryIndexById(prd.stories, storyId) = 0
            THEN [NoResult EXCEPT !.op = "getAttempts", !.id = storyId,
                                  !.error = "not_found"]
       ELSE [NoResult EXCEPT !.op = "getAttempts", !.id = storyId,
                             !.found = TRUE,
                             !.attemptCount = Len(attempts),
                             !.previousAttempts = attempts]

(***************************************************************************)
(* is-complete.ts                                                          *)
(***************************************************************************)
isPasses(s) == s.passes = TRUE
isBlocked(s) == s.blocked = TRUE

checkIsComplete ==
    LET prd == readPrdFile(ActiveFile) IN
    IF ~prd.ok
    THEN [NoResult EXCEPT !.op = "isComplete", !.reason = "error",
                          !.error = prd.error]
    ELSE LET totalStories == Len(prd.stories)
             completedStories == Count(prd.stories, isPasses)
             blockedStories == Count(prd.stories, isBlocked)
             remainingStories == totalStories - completedStories - blockedStories
             allComplete == \A i \in 1..Len(prd.stories) : prd.stories[i].passes = TRUE
         IN [NoResult EXCEPT !.op = "isComplete",
                             !.complete = allComplete,
                             !.totalStories = totalStories,
                             !.completedStories = completedStories,
                             !.blockedStories = blockedStories,
                             !.remainingStories = remainingStories]

IsComplete ==
    /\ result' = checkIsComplete
    /\ UNCHANGED <<files, envArchive, now, writer, callers>>

(***************************************************************************)
(* writePrdFile: the document is written to <path>.tmp and renamed onto    *)
(* the target; when either step throws, the temp file is unlinked, the     *)
(* target keeps its content and the error is rethrown.                     *)
(***************************************************************************)
writePrdFile(fs, prdPath, stories, fails) ==
    IF fails THEN fs
    ELSE [fs EXCEPT ![prdPath] = PrdDocument(stories)]

RemoveAt(seq, i) == SubSeq(seq, 1, i - 1) \o SubSeq(seq, i + 1, Len(seq))

Thrown(op, storyId, reason) ==
    [NoResult EXCEPT !.op = op, !.ok = FALSE, !.id = storyId, !.reason = reason]

(***************************************************************************)
(* writePrdFile, step by step, on active.prd.json: fs.writeFile to the     *)
(* temp path, fs.rename onto the target, and in the catch block fs.unlink  *)
(* of the temp path before the error is rethrown.  writer holds the        *)
(* position of the call (idle, rename, catch), the document it was handed  *)
(* and the target as the call found it.                                    *)
(***************************************************************************)
TempFile == "active.prd.json.tmp"

\* Variant: the document is written straight onto the target.
tempPath_inPlace(prdPath) == prdPath

\* `${prdPath}.tmp`
tempPath(prdPath) == TempFile

\* fs.writeFile: creates or truncates the file and writes the data; it may
\* fail before it touched the file ("refused") or after it wrote a part of
\* the data ("partial").
writeFile(fs, path, stories, outcome) ==
    CASE outcome = "ok" -> [fs EXCEPT ![path] = PrdDocument(stories)]
      [] outcome = "partial" -> [fs EXCEPT ![path] = MalformedFile]
      [] OTHER -> fs

\* fs.rename: replaces the target in one step, or fails and changes nothing.
rename(fs, from, to, fails) ==
    IF fails \/ from = to THEN fs
    ELSE [fs EXCEPT ![to] = fs[from], ![from] = AbsentFile]

\* Variant: the temp file is left behind.
unlink_skipped(fs, path) == fs

\* fs.unlink; the error it throws on a file that does not exist is ignored.
unlink(fs, path) == [fs EXCEPT ![path] = AbsentFile]

NoWriter == [pc |-> "idle", prd |-> <<>>, before |-> AbsentFile]

\* The callers of the concurrent runs and what each holds: the position of
\* its call, the story and context file it was called with, the stories it
\* loaded, the document it saves, the file its open descriptor is the
\* file of, whether another write ran on that file meanwhile, what its
\* rename installed and how the call ended.
Callers == {1, 2}

NoCaller ==
    [pc |-> "idle", storyId |-> "", ref |-> 0, loaded |-> <<>>, prd |-> <<>>,
     fd |-> NoFile, raced |-> FALSE, installed |-> AbsentFile, outcome |-> ""]

NoCallers == [c \in Callers |-> NoCaller]

StoreDocs ==
    {<<>>,
     <<Story("s1", "high", FALSE, FALSE, <<>>)>>,
     <<[Story("s1", "high", TRUE, FALSE, <<>>) EXCEPT !.completedAt = 1],
       [Story("s2", "low", FALSE, TRUE, <<"s0">>) EXCEPT !.blockedAt = 1]>>}

StoreContents ==
    {AbsentFile, MalformedFile, NoStoriesFile, UnreadableFile}
        \cup {PrdDocument(d) : d \in StoreDocs}

\* writePrdFile is called and runs fs.writeFile.
SaveWriteFile ==
    /\ writer.pc = "idle"
    /\ \E prd \in StoreDocs, outcome \in {"ok", "partial", "refused"} :
          /\ files' = writeFile(files, tempPath(ActiveFile), prd, outcome)
          /\ writer' = [pc |-> IF outcome = "ok" THEN "rename" ELSE "catch",
                        prd |-> prd, before |-> files[ActiveFile]]
    /\ UNCHANGED <<envArchive, result, now, callers>>

\* fs.rename; when it succeeds writePrdFile returns.
SaveRename ==
    /\ writer.pc = "rename"
    /\ \E fails \in BOOLEAN :
          /\ files' = rename(files, tempPath(ActiveFile), ActiveFile, fails)
          /\ writer' = [writer EXCEPT !.pc = IF fails THEN "catch" ELSE "idle"]
          /\ result' = IF fails THEN result
                       ELSE [NoResult EXCEPT !.op = "writePrdFile"]
    /\ UNCHANGED <<envArchive, now, callers>>

\* The catch block: unlink the temp file, throw "Failed to write PRD file".
SaveCatch ==
    /\ writer.pc = "catch"
    /\ files' = unlink(files, tempPath(ActiveFile))
    /\ writer' = [writer EXCEPT !.pc = "idle"]
    /\ result' = Thrown("writePrdFile", "", "write")
    /\ UNCHANGED <<envArchive, now, callers>>

\* The process stops in the middle of writePrdFile.
SaveCrash ==
    /\ writer.pc # "idle"
    /\ writer' = [writer EXCEPT !.pc = "idle"]
    /\ result' = [NoResult EXCEPT !.op = "crash", !.ok = FALSE]
    /\ UNCHANGED <<files, envArchive, now, callers>>

\* readPrdFile(active.prd.json), by the writer or by another process.
ReadPrdFile ==
    /\ result' = [NoResult EXCEPT !.op = "readPrdFile",
                                  !.ok = readPrdFile(ActiveFile).ok,
                                  !.error = readPrdFile(ActiveFile).error,
                                  !.totalStories =
                                      Len(readPrdFile(ActiveFile).stories)]
    /\ UNCHANGED <<files, envArchive, now, writer, callers>>

(***************************************************************************)
(* mark-complete.ts                                                        *)
(***************************************************************************)
\* Variant: completedAt is not set.
moveStoryToArchive_unstamped(stories, archivePath, storyIndex, storyId, t, w) ==
    LET archive == IF readPrdFile(archivePath).ok
                   THEN readPrdFile(archivePath).stories
                   ELSE <<>>
        story == [stories[storyIndex] EXCEPT !.passes = TRUE]
        newArchive == Append(archive, story)
        newActive == RemoveAt(stories, storyIndex)
        fs1 == writePrdFile(files, ActiveFile, newActive, w = "fail1")
        fs2 == writePrdFile(fs1, archivePath, newArchive, w = "fail2")
    IN IF w = "fail1" THEN [f |-> fs1, r |-> Thrown("markComplete", storyId, "write")]
       ELSE IF w = "fail2" THEN [f |-> fs2, r |-> Thrown("markComplete", storyId, "write")]
       ELSE [f |-> fs2,
             r |-> [NoResult EXCEPT !.op = "markComplete", !.id = storyId,
                                    !.mode = "moved", !.archive = archivePath]]

\* Variant: the story is not spliced out of active.
moveStoryToArchive_kept(stories, archivePath, storyIndex, storyId, t, w) ==
    LET archive == IF readPrdFile(archivePath).ok
                   THEN readPrdFile(archivePath).stories
                   ELSE <<>>
        story == [stories[storyIndex] EXCEPT !.passes = TRUE, !.completedAt = t]
        newArchive == Append(archive, story)
        newActive == [stories EXCEPT ![storyIndex] = story]
        fs1 == writePrdFile(files, ActiveFile, newActive, w = "fail1")
        fs2 == writePrdFile(fs1, archivePath, newArchive, w = "fail2")
    IN IF w = "fail1" THEN [f |-> fs1, r |-> Thrown("markComplete", storyId, "write")]
       ELSE IF w = "fail2" THEN [f |-> fs2, r |-> Thrown("markComplete", storyId, "write")]
       ELSE [f |-> fs2,
             r |-> [NoResult EXCEPT !.op = "markComplete", !.id = storyId,
                                    !.mode = "moved", !.archive = archivePath]]

\* Variant: the story is put in front of the archived stories.
moveStoryToArchive_prepending(stories, archivePath, storyIndex, storyId, t, w) ==
    LET archive == IF readPrdFile(archivePath).ok
                   THEN readPrdFile(archivePath).stories
                   ELSE <<>>
        story == [stories[storyIndex] EXCEPT !.passes = TRUE, !.completedAt = t]
        newArchive == <<story>> \o archive
        newActive == RemoveAt(stories, storyIndex)
        fs1 == writePrdFile(files, ActiveFile, newActive, w = "fail1")
        fs2 == writePrdFile(fs1, archivePath, newArchive, w = "fail2")
    IN IF w = "fail1" THEN [f |-> fs1, r |-> Thrown("markComplete", storyId, "write")]
       ELSE IF w = "fail2" THEN [f |-> fs2, r |-> Thrown("markComplete", storyId, "write")]
       ELSE [f |-> fs2,
             r |-> [NoResult EXCEPT !.op = "markComplete", !.id = storyId,
                                    !.mode = "moved", !.archive = archivePath]]

\* Variant: the archived copy of the story is written without its attempts.
moveStoryToArchive_stripped(stories, archivePath, storyIndex, storyId, t, w) ==
    LET archive == IF readPrdFile(archivePath).ok
                   THEN readPrdFile(archivePath).stories
                   ELSE <<>>
        story == [stories[storyIndex] EXCEPT !.passes = TRUE, !.completedAt = t,
                                             !.hasAttempts = FALSE,
                                             !.attempts = <<>>]
        newArchive == Append(archive, story)
        newActive == RemoveAt(stories, storyIndex)
        fs1 == writePrdFile(files, ActiveFile, newActive, w = "fail1")
        fs2 == writePrdFile(fs1, archivePath, newArchive, w = "fail2")
    IN IF w = "fail1" THEN [f |-> fs1, r |-> Thrown("markComplete", storyId, "write")]
       ELSE IF w = "fail2" THEN [f |-> fs2, r |-> Thrown("markComplete", storyId, "write")]
       ELSE [f |-> fs2,
             r |-> [NoResult EXCEPT !.op = "markComplete", !.id = storyId,
                                    !.mode = "moved", !.archive = archivePath]]

\* w = "fail1": the first writePrdFile throws; w = "fail2": the second one
\* throws (or the process stops before it).
moveStoryToArchive(stories, archivePath, storyIndex, storyId, t, w) ==
    LET archive == IF readPrdFile(archivePath).ok
                   THEN readPrdFile(archivePath).stories
                   ELSE <<>>
        story == [stories[storyIndex] EXCEPT !.passes = TRUE, !.completedAt = t]
        newArchive == Append(archive, story)
        newActive == RemoveAt(stories, storyIndex)
        fs1 == writePrdFile(files, ActiveFile, newActive, w = "fail1")
        fs2 == writePrdFile(fs1, archivePath, newArchive, w = "fail2")
    IN IF w = "fail1" THEN [f |-> fs1, r |-> Thrown("markComplete", storyId, "write")]
       ELSE IF w = "fail2" THEN [f |-> fs2, r |-> Thrown("markComplete", storyId, "write")]
       ELSE [f |-> fs2,
             r |-> [NoResult EXCEPT !.op = "markComplete", !.id = storyId,
                                    !.mode = "moved", !.archive = archivePath]]

\* Variant: a completed story is no longer blocked.
markStoryInPlace_unblocking(stories, storyIndex, storyId, t, w) ==
    LET story == [stories[storyIndex] EXCEPT !.passes = TRUE, !.completedAt = t,
                                             !.blocked = FALSE]
        fs1 == writePrdFile(files, ActiveFile,
                            [stories EXCEPT ![storyIndex] = story], w # "ok")
    IN IF w # "ok" THEN [f |-> fs1, r |-> Thrown("markComplete", storyId, "write")]
       ELSE [f |-> fs1,
             r |-> [NoResult EXCEPT !.op = "markComplete", !.id = storyId,
                                    !.mode = "inplace"]]

markStoryInPlace(stories, storyIndex, storyId, t, w) ==
    LET story == [stories[storyIndex] EXCEPT !.passes = TRUE, !.completedAt = t]
        fs1 == writePrdFile(files, ActiveFile,
                            [stories EXCEPT ![storyIndex] = story], w # "ok")
    IN IF w # "ok" THEN [f |-> fs1, r |-> Thrown("markComplete", storyId, "write")]
       ELSE [f |-> fs1,
             r |-> [NoResult EXCEPT !.op = "markComplete", !.id = storyId,
                                    !.mode = "inplace"]]

\* Variant: the archive file is created before the story is looked up.
markStoryComplete_eager(storyId, archiveFile, t, w) ==
    LET prd == readPrdFile(ActiveFile)
        storyIndex == findStoryIndexById(prd.stories, storyId)
        archivePath == resolveArchiveFile(archiveFile)
    IN IF ~prd.ok THEN [f |-> files, r |-> Thrown("markComplete", storyId, "read")]
       ELSE IF storyIndex = 0
            THEN [f |-> IF archivePath # NoFile /\ ~readPrdFile(archivePath).ok
                        THEN writePrdFile(files, archivePath, <<>>, FALSE)
                        ELSE files,
                  r |-> Thrown("markComplete", storyId, "not_found")]
       ELSE IF archivePath # NoFile
            THEN moveStoryToArchive(prd.stories, archivePath, storyIndex, storyId, t, w)
       ELSE markStoryInPlace(prd.stories, storyIndex, storyId, t, w)

markStoryComplete(storyId, archiveFile, t, w) ==
    LET prd == readPrdFile(ActiveFile)
        storyIndex == findStoryIndexById(prd.stories, storyId)
        archivePath == resolveArchiveFile(archiveFile)
    IN IF ~prd.ok THEN [f |-> files, r |-> Thrown("markComplete", storyId, "read")]
       ELSE IF storyIndex = 0
            THEN [f |-> files, r |-> Thrown("markComplete", storyId, "not_found")]
       ELSE IF archivePath # NoFile
            THEN moveStoryToArchive(prd.stories, archivePath, storyIndex, storyId, t, w)
       ELSE markStoryInPlace(prd.stories, storyIndex, storyId, t, w)

(***************************************************************************)
(* block-story.ts                                                          *)
(***************************************************************************)
\* Variant: the blocked story is moved to the end of the list.
blockStory_demoting(storyId, t, w) ==
    LET prd == readPrdFile(ActiveFile)
        i == findStoryIndexById(prd.stories, storyId)
    IN IF ~prd.ok THEN [f |-> files, r |-> Thrown("blockStory", storyId, "read")]
       ELSE IF i = 0
            THEN [f |-> files, r |-> Thrown("blockStory", storyId, "not_found")]
       ELSE LET story == [prd.stories[i] EXCEPT !.blocked = TRUE, !.blockedAt = t]
                fs1 == writePrdFile(files, ActiveFile,
                                    Append(RemoveAt(prd.stories, i), story),
                                    w # "ok")
            IN IF w # "ok"
               THEN [f |-> fs1, r |-> Thrown("blockStory", storyId, "write")]
               ELSE [f |-> fs1,
                     r |-> [NoResult EXCEPT !.op = "blockStory", !.id = storyId]]

\* Variant: a story that is blocked already is refused.
blockStory_refusing(storyId, t, w) ==
    LET prd == readPrdFile(ActiveFile)
        i == findStoryIndexById(prd.stories, storyId)
    IN IF ~prd.ok THEN [f |-> files, r |-> Thrown("blockStory", storyId, "read")]
       ELSE IF i = 0
            THEN [f |-> files, r |-> Thrown("blockStory", storyId, "not_found")]
       ELSE IF prd.stories[i].blocked
            THEN [f |-> files, r |-> Thrown("blockStory", storyId, "blocked")]
       ELSE LET story == [prd.stories[i] EXCEPT !.blocked = TRUE, !.blockedAt = t]
                fs1 == writePrdFile(files, ActiveFile,
                                    [prd.stories EXCEPT ![i] = story], w # "ok")
            IN IF w # "ok"
               THEN [f |-> fs1, r |-> Thrown("blockStory", storyId, "write")]
               ELSE [f |-> fs1,
                     r |-> [NoResult EXCEPT !.op = "blockStory", !.id = storyId]]

blockStory(storyId, t, w) ==
    LET prd == readPrdFile(ActiveFile)
        i == findStoryIndexById(prd.stories, storyId)
    IN IF ~prd.ok THEN [f |-> files, r |-> Thrown("blockStory", storyId, "read")]
       ELSE IF i = 0
            THEN [f |-> files, r |-> Thrown("blockStory", storyId, "not_found")]
       ELSE LET story == [prd.stories[i] EXCEPT !.blocked = TRUE, !.blockedAt = t]
                fs1 == writePrdFile(files, ActiveFile,
                                    [prd.stories EXCEPT ![i] = story], w # "ok")
            IN IF w # "ok"
               THEN [f |-> fs1, r |-> Thrown("blockStory", storyId, "write")]
               ELSE [f |-> fs1,
                     r |-> [NoResult EXCEPT !.op = "blockStory", !.id = storyId]]

(***************************************************************************)
(* record-failure.ts                                                       *)
(***************************************************************************)
\* Variant: the attempts array is initialised on every call.
recordStoryFailure_reset(storyId, contextFilePath, w) ==
    LET prd == readPrdFile(ActiveFile)
        i == findStoryIndexById(prd.stories, storyId)
    IN IF ~prd.ok THEN [f |-> files, r |-> Thrown("recordFailure", storyId, "read")]
       ELSE IF i = 0
            THEN [f |-> files, r |-> Thrown("recordFailure", storyId, "not_found")]
       ELSE LET story == [prd.stories[i] EXCEPT
                             !.hasAttempts = TRUE,
                             !.attempts = <<contextFilePath>>]
                fs1 == writePrdFile(files, ActiveFile,
                                    [prd.stories EXCEPT ![i] = story], w # "ok")
            IN IF w # "ok"
               THEN [f |-> fs1, r |-> Thrown("recordFailure", storyId, "write")]
               ELSE [f |-> fs1,
                     r |-> [NoResult EXCEPT !.op = "recordFailure", !.id = storyId,
                                            !.ref = contextFilePath,
                                            !.attemptCount = Len(story.attempts)]]

recordStoryFailure(storyId, contextFilePath, w) ==
    LET prd == readPrdFile(ActiveFile)
        i == findStoryIndexById(prd.stories, storyId)
    IN IF ~prd.ok THEN [f |-> files, r |-> Thrown("recordFailure", storyId, "read")]
       ELSE IF i = 0
            THEN [f |-> files, r |-> Thrown("recordFailure", storyId, "not_found")]
       ELSE LET attempts == IF prd.stories[i].hasAttempts
                            THEN prd.stories[i].attempts ELSE <<>>
                story == [prd.stories[i] EXCEPT
                             !.hasAttempts = TRUE,
                             !.attempts = Append(attempts, contextFilePath)]
                fs1 == writePrdFile(files, ActiveFile,
                                    [prd.stories EXCEPT ![i] = story], w # "ok")
            IN IF w # "ok"
               THEN [f |-> fs1, r |-> Thrown("recordFailure", storyId, "write")]
               ELSE [f |-> fs1,
                     r |-> [NoResult EXCEPT !.op = "recordFailure", !.id = storyId,
                                            !.ref = contextFilePath,
                                            !.attemptCount = Len(story.attempts)]]

(***************************************************************************)
(* The tool calls.                                                         *)
(***************************************************************************)
StoryIds == {"s1", "s2"}
WriteOutcomes == {"ok", "fail1", "fail2"}

\* new Date(): the clock reads `now`, and has moved on to the later instant
\* once a call has written a stamp.
MarkComplete ==
    \E storyId \in StoryIds, archiveFile \in {NoFile, DoneFile},
       w \in WriteOutcomes :
        LET out == markStoryComplete(storyId, archiveFile, now, w) IN
        /\ files' = out.f
        /\ result' = out.r
        /\ now' = IF files' # files THEN LastTime ELSE now
        /\ UNCHANGED <<envArchive, writer, callers>>

BlockStory ==
    \E storyId \in StoryIds, w \in {"ok", "fail1"} :
        LET out == blockStory(storyId, now, w) IN
        /\ files' = out.f
        /\ result' = out.r
        /\ now' = IF files' # files THEN LastTime ELSE now
        /\ UNCHANGED <<envArchive, writer, callers>>

\* The failure documents some story of some file already lists.
recordedRefs ==
    UNION {UNION {{files[n].stories[i].attempts[k] :
                      k \in 1..Len(files[n].stories[i].attempts)} :
                  i \in 1..Len(files[n].stories)} :
           n \in FileNames}

\* A failure document is written afresh for every failed attempt, so the
\* path handed to recordFailure is one that no story lists yet.
RecordFailure ==
    \E storyId \in StoryIds, ref \in Refs \ recordedRefs, w \in {"ok", "fail1"} :
        LET out == recordStoryFailure(storyId, ref, w) IN
        /\ files' = out.f
        /\ result' = out.r
        /\ UNCHANGED <<envArchive, now, writer, callers>>

(***************************************************************************)
(* Spec: the lifecycle of a working directory.  active.prd.json holds s1   *)
(* (high, no dependencies) and s2 (critical, depends on s1);               *)
(* archive.prd.json is absent, malformed or holds the completed s0;        *)
(* RALPH_PRD_FILE_ARCHIVE is unset or names done.json.                     *)
(***************************************************************************)
ArchivedS0 == [Story("s0", "medium", TRUE, FALSE, <<>>) EXCEPT !.completedAt = 1]

InitialActive ==
    <<Story("s1", "high", FALSE, FALSE, <<>>),
      Story("s2", "critical", FALSE, FALSE, <<"s1">>)>>

Init ==
    /\ \E arch \in {AbsentFile, MalformedFile, PrdDocument(<<ArchivedS0>>)} :
          files = [n \in FileNames |->
                    CASE n = ActiveFile -> PrdDocument(InitialActive)
                      [] n = DefaultArchive -> arch
                      [] OTHER -> AbsentFile]
    /\ envArchive \in {NoFile, DoneFile}
    /\ envArchive = DoneFile => files[DefaultArchive].kind = "doc"
    /\ result = NoResult
    /\ now = FirstTime
    /\ writer = NoWriter
    /\ callers = NoCallers

Next == FindNext \/ MarkComplete \/ BlockStory \/ RecordFailure

Spec == Init /\ [][Next]_vars

(***************************************************************************)
(* SpecFind: the scheduler and the dependency resolver as functions of the *)
(* files.  active.prd.json holds s1, s2 and s3 with any priority, state    *)
(* and dependencies (none, on each other, on themselves, on the archived   *)
(* s0, on the unknown s9); the archive is absent, malformed, or holds s0   *)
(* (completed or not) and possibly a completed copy of s1.                 *)
(***************************************************************************)
StoryIn(id, priority, state, deps) ==
    [Story(id, priority, state = "done", state = "blocked", deps)
        EXCEPT !.completedAt = IF state = "done" THEN 1 ELSE 0,
               !.blockedAt = IF state = "blocked" THEN 1 ELSE 0]

FindArchives ==
    {AbsentFile, MalformedFile,
     PrdDocument(<<ArchivedS0>>),
     PrdDocument(<<[ArchivedS0 EXCEPT !.passes = FALSE, !.completedAt = 0]>>),
     PrdDocument(<<StoryIn("s1", "high", "done", <<>>), ArchivedS0>>)}

InitFind ==
    /\ \E p1 \in Priorities, p2 \in Priorities, p3 \in {"critical", "medium"},
          st1 \in {"open", "done", "blocked"}, st2 \in {"open", "done"},
          st3 \in {"open", "blocked"},
          d1 \in {<<>>, <<"s1">>, <<"s3">>},
          d2 \in {<<>>, <<"s1">>, <<"s0">>, <<"s1", "s9">>},
          d3 \in {<<"s0">>, <<"s2">>, <<"s0", "s1">>},
          arch \in FindArchives :
          files = [n \in FileNames |->
                    CASE n = ActiveFile ->
                           PrdDocument(<<StoryIn("s1", p1, st1, d1),
                                         StoryIn("s2", p2, st2, d2),
                                         StoryIn("s3", p3, st3, d3)>>)
                      [] n = DefaultArchive -> arch
                      [] OTHER -> AbsentFile]
    /\ envArchive \in {NoFile, DoneFile}
    /\ result = NoResult
    /\ now = FirstTime
    /\ writer = NoWriter
    /\ callers = NoCallers

NextFind == FindNext \/ ResolveDependencies \/ IsComplete

SpecFind == InitFind /\ [][NextFind]_vars

(***************************************************************************)
(* SpecAttempts: failures are recorded on the stories of active.prd.json,  *)
(* stories are blocked, and the stories are looked at with findNext,       *)
(* getDetails and getAttempts.                                             *)
(***************************************************************************)
GetDetails ==
    /\ \E storyId \in StoryIds : result' = getStoryDetails(storyId)
    /\ UNCHANGED <<files, envArchive, now, writer, callers>>

\* Variant: the attempts array the story lacks is created on file.
GetAttempts_initialising ==
    /\ \E storyId \in StoryIds :
          LET prd == readPrdFile(ActiveFile)
              i == findStoryIndexById(prd.stories, storyId)
          IN /\ result' = getStoryAttempts(storyId)
             /\ files' = IF prd.ok /\ i # 0
                         THEN writePrdFile(files, ActiveFile,
                                  [prd.stories EXCEPT ![i].hasAttempts = TRUE],
                                  FALSE)
                         ELSE files
    /\ UNCHANGED <<envArchive, now, writer, callers>>

GetAttempts ==
    /\ \E storyId \in StoryIds : result' = getStoryAttempts(storyId)
    /\ UNCHANGED <<files, envArchive, now, writer, callers>>

InitAttempts ==
    /\ files = [n \in FileNames |->
                  CASE n = ActiveFile -> PrdDocument(InitialActive)
                    [] n = DefaultArchive -> PrdDocument(<<ArchivedS0>>)
                    [] OTHER -> AbsentFile]
    /\ envArchive = NoFile
    /\ result = NoResult
    /\ now = FirstTime
    /\ writer = NoWriter
    /\ callers = NoCallers

NextAttempts ==
    RecordFailure \/ BlockStory \/ FindNext \/ GetDetails \/ GetAttempts

SpecAttempts == InitAttempts /\ [][NextAttempts]_vars

(***************************************************************************)
(* SpecRoundTrip: a document is read and written back as it was read.  The *)
(* text of a file is its JSON value (project, when the key is there, and   *)
(* stories) in some layout of whitespace; JSON.parse keeps the value and   *)
(* forgets the layout, JSON.stringify(prd, null, 2) + '\n' writes the      *)
(* value of every key in the two-space layout.                             *)
(***************************************************************************)
Layouts == {"compact", "indent2", "indent4"}
Projects == {"", "Test"}

JsonText(project, stories, layout) ==
    [kind |-> "doc", stories |-> stories, project |-> project, layout |-> layout]

JSONparse(content) == [project |-> content.project, stories |-> content.stories]

\* Variant: only the stories are written.
JSONstringify_storiesOnly(prd) == JsonText("", prd.stories, "indent2")

JSONstringify(prd) == JsonText(prd.project, prd.stories, "indent2")

\* prd = await readPrdFile(prdPath); await writePrdFile(prdPath, prd)
SaveLoaded ==
    /\ IF readPrdFile(ActiveFile).ok
       THEN /\ files' = [files EXCEPT ![ActiveFile] =
                            JSONstringify(JSONparse(files[ActiveFile]))]
            /\ result' = [NoResult EXCEPT !.op = "saveLoaded"]
       ELSE /\ files' = files
            /\ result' = [Thrown("saveLoaded", "", "read") EXCEPT
                             !.error = readPrdFile(ActiveFile).error]
    /\ UNCHANGED <<envArchive, now, writer, callers>>

InitRoundTrip ==
    /\ \E c \in {AbsentFile, MalformedFile, NoStoriesFile}
                   \cup {JsonText(p, d, l) :
                            p \in Projects, d \in StoreDocs, l \in Layouts} :
          files = [n \in FileNames |->
                    CASE n = ActiveFile -> c
                      [] n = DefaultArchive -> PrdDocument(<<ArchivedS0>>)
                      [] OTHER -> AbsentFile]
    /\ envArchive = NoFile
    /\ result = NoResult
    /\ now = FirstTime
    /\ writer = NoWriter
    /\ callers = NoCallers

NextRoundTrip == SaveLoaded \/ ReadPrdFile \/ FindNext \/ IsComplete \/ GetDetails

SpecRoundTrip == InitRoundTrip /\ [][NextRoundTrip]_vars

(***************************************************************************)
(* SpecHierarchy: two PRD types, default before feature.  The default      *)
(* active file holds s1 and s2, the feature one s3, each with any of       *)
(* several priorities, states and dependencies, or a file is missing; s0   *)
(* is completed in the default archive.  Stories of the default type are   *)
(* blocked as the run goes on.                                             *)
(***************************************************************************)
InitHierarchy ==
    /\ \E p1 \in {"high", "low"}, p2 \in {"medium", "low"},
          p3 \in {"critical", "low"},
          st1 \in {"open", "done", "blocked"}, st2 \in {"open", "done"},
          st3 \in {"open", "done", "blocked"},
          d2 \in {<<>>, <<"s1">>, <<"s3">>}, d3 \in {<<>>, <<"s1">>, <<"s0">>, <<"s9">>},
          gone \in {"none", "default", "feature"} :
          files = [n \in FileNames \cup {FeatureActive, FeatureArchive} |->
                    CASE n = ActiveFile ->
                           IF gone = "default" THEN AbsentFile
                           ELSE PrdDocument(<<StoryIn("s1", p1, st1, <<>>),
                                              StoryIn("s2", p2, st2, d2)>>)
                      [] n = FeatureActive ->
                           IF gone = "feature" THEN MalformedFile
                           ELSE PrdDocument(<<StoryIn("s3", p3, st3, d3)>>)
                      [] n = DefaultArchive -> PrdDocument(<<ArchivedS0>>)
                      [] OTHER -> AbsentFile]
    /\ envArchive = NoFile
    /\ result = NoResult
    /\ now = FirstTime
    /\ writer = NoWriter
    /\ callers = NoCallers

NextHierarchy == HierarchyFindNext \/ BlockStory

SpecHierarchy == InitHierarchy /\ [][NextHierarchy]_vars

(***************************************************************************)
(* ralph.ts, addPrd.  Story ids are written s<N> for story-<N>; "epic" is  *)
(* an id of another form.  SpecAdd: stories are added to active.prd.json,  *)
(* with an id or without one, while stories are completed and looked for.  *)
(***************************************************************************)
MaxStories == 3

NoId == ""

NumberedIds == <<"s1", "s2", "s3", "s4", "s5", "s6", "s7", "s8">>

\* /^story-\d+$/.test(id) and parseInt of the digits; -1 for an id of
\* another form.
storyNumber(id) ==
    IF id = "s0" THEN 0
    ELSE IF \E n \in 1..Len(NumberedIds) : NumberedIds[n] = id
    THEN CHOOSE n \in 1..Len(NumberedIds) : NumberedIds[n] = id
    ELSE IF id = "s9" THEN 9
    ELSE -1

\* `story-${nextId}`
storyIdOf(n) ==
    IF n = 0 THEN "s0"
    ELSE IF n \in 1..Len(NumberedIds) THEN NumberedIds[n]
    ELSE "s9"

\* Math.max over the numeric ids, 0 when there is none, plus one.
nextStoryId(stories) ==
    LET numericIds == {storyNumber(stories[i].id) : i \in 1..Len(stories)} \ {-1}
        maxId == IF numericIds = {} THEN 0
                 ELSE CHOOSE m \in numericIds : \A k \in numericIds : k <= m
    IN storyIdOf(maxId + 1)

\* The dependency is in active, or in the archive that resolveArchiveFile({})
\* names when that file reads as a document.
dependencyExists(stories, dep) ==
    \/ \E i \in 1..Len(stories) : stories[i].id = dep
    \/ /\ resolveArchiveFile(NoFile) # NoFile
       /\ readPrdFile(resolveArchiveFile(NoFile)).ok
       /\ findStoryIndexById(readPrdFile(resolveArchiveFile(NoFile)).stories, dep) # 0

addPrd(id, priority, dependencies, w) ==
    LET prd == readPrdFile(ActiveFile)
        storyId == IF id = NoId THEN nextStoryId(prd.stories) ELSE id
    IN IF ~prd.ok THEN [f |-> files, r |-> Thrown("addPrd", id, "read")]
       ELSE IF findStoryIndexById(prd.stories, storyId) # 0
            THEN [f |-> files, r |-> Thrown("addPrd", storyId, "duplicate")]
       ELSE IF \E d \in 1..Len(dependencies) :
                  ~dependencyExists(prd.stories, dependencies[d])
            THEN [f |-> files, r |-> Thrown("addPrd", storyId, "invalid_dependencies")]
       ELSE LET newStory == Story(storyId, priority, FALSE, FALSE, dependencies)
                fs1 == writePrdFile(files, ActiveFile,
                                    Append(prd.stories, newStory), w # "ok")
            IN IF w # "ok"
               THEN [f |-> fs1, r |-> Thrown("addPrd", storyId, "write")]
               ELSE [f |-> fs1,
                     r |-> [NoResult EXCEPT !.op = "addPrd", !.id = storyId]]

AddIds == {NoId, "s2", "epic"}
AddDependencies == {<<>>, <<"s0">>, <<"s9">>}

\* The stories on file, active and archives together.
storiesOnFile ==
    Len(files[ActiveFile].stories) + Len(files[DefaultArchive].stories)
        + Len(files[DoneFile].stories)

AddPrd ==
    /\ storiesOnFile <= MaxStories
    /\ \E id \in AddIds, dependencies \in AddDependencies, w \in {"ok", "fail1"} :
          LET out == addPrd(id, "medium", dependencies, w) IN
          /\ files' = out.f
          /\ result' = out.r
    /\ UNCHANGED <<envArchive, now, writer, callers>>

InitAdd ==
    /\ \E arch \in {AbsentFile, PrdDocument(<<ArchivedS0>>)} :
          files = [n \in FileNames |->
                    CASE n = ActiveFile -> PrdDocument(InitialActive)
                      [] n = DefaultArchive -> arch
                      [] OTHER -> AbsentFile]
    /\ envArchive = NoFile
    /\ result = NoResult
    /\ now = FirstTime
    /\ writer = NoWriter
    /\ callers = NoCallers

NextAdd == AddPrd \/ MarkComplete \/ FindNext

SpecAdd == InitAdd /\ [][NextAdd]_vars

(***************************************************************************)
(* SpecLoop: the orchestration loop of /ralph-orchestrate with one caller  *)
(* and every write succeeding.  The loop finds the next story, and the     *)
(* agent it spawns either completes the story or fails, in which case the  *)
(* failure is recorded and the story is blocked once it has MaxAttempts    *)
(* attempts; the loop ends when findNext returns no story.  What the loop  *)
(* does next is decided by the result of its last call.                    *)
(***************************************************************************)
MaxAttempts == 6

LoopFindNext ==
    /\ \/ result.op \in {"none", "markComplete", "blockStory"}
       \/ result.op = "recordFailure" /\ result.attemptCount < MaxAttempts
    /\ result' = findNextStory
    /\ UNCHANGED <<files, envArchive, now, writer, callers>>

LoopComplete ==
    /\ result.op = "findNext"
    /\ result.available
    /\ LET out == markStoryComplete(result.id, NoFile, now, "ok") IN
          /\ files' = out.f
          /\ result' = out.r
    /\ now' = IF files' # files THEN LastTime ELSE now
    /\ UNCHANGED <<envArchive, writer, callers>>

\* The context file of an attempt is a new file: it is numbered after the
\* attempts the story has.
LoopRecordFailure ==
    /\ result.op = "findNext"
    /\ result.available
    /\ LET out == recordStoryFailure(result.id, result.attemptCount + 1, "ok") IN
          /\ files' = out.f
          /\ result' = out.r
    /\ UNCHANGED <<envArchive, now, writer, callers>>

LoopBlock ==
    /\ result.op = "recordFailure"
    /\ result.attemptCount >= MaxAttempts
    /\ LET out == blockStory(result.id, now, "ok") IN
          /\ files' = out.f
          /\ result' = out.r
    /\ now' = IF files' # files THEN LastTime ELSE now
    /\ UNCHANGED <<envArchive, writer, callers>>

InitLoop ==
    /\ \E arch \in {AbsentFile, PrdDocument(<<ArchivedS0>>)},
          d1 \in {<<>>, <<"s0">>}, d3 \in {<<>>, <<"s2">>, <<"s9">>} :
          files = [n \in FileNames |->
                    CASE n = ActiveFile ->
                           PrdDocument(<<Story("s1", "high", FALSE, FALSE, d1),
                                         Story("s2", "critical", FALSE, FALSE, <<"s1">>),
                                         Story("s3", "low", FALSE, FALSE, d3)>>)
                      [] n = DefaultArchive -> arch
                      [] OTHER -> AbsentFile]
    /\ envArchive = NoFile
    /\ result = NoResult
    /\ now = FirstTime
    /\ writer = NoWriter
    /\ callers = NoCallers

NextLoop == LoopFindNext \/ LoopComplete \/ LoopRecordFailure \/ LoopBlock

\* The loop goes on as long as it has a step to take.
SpecLoop == InitLoop /\ [][NextLoop]_vars /\ WF_vars(NextLoop)

(***************************************************************************)
(* SpecRead: findNext, getDetails, getAttempts and isComplete between the  *)
(* calls that complete and block stories.  active.prd.json is a document,  *)
(* absent or not valid JSON, archive.prd.json is absent, not valid JSON or *)
(* holds s0, and there is no temp file to begin with.                      *)
(***************************************************************************)
InitRead ==
    /\ \E act \in {PrdDocument(InitialActive), AbsentFile, MalformedFile},
          arch \in {AbsentFile, MalformedFile, PrdDocument(<<ArchivedS0>>)} :
          files = [n \in FileNames \cup {TempFile} |->
                    CASE n = ActiveFile -> act
                      [] n = DefaultArchive -> arch
                      [] OTHER -> AbsentFile]
    /\ envArchive = NoFile
    /\ result = NoResult
    /\ now = FirstTime
    /\ writer = NoWriter
    /\ callers = NoCallers

NextRead ==
    \/ FindNext
    \/ GetDetails
    \/ GetAttempts
    \/ IsComplete
    \/ MarkComplete
    \/ BlockStory

SpecRead == InitRead /\ [][NextRead]_vars

(***************************************************************************)
(* SpecRace: two callers run recordFailure on active.prd.json at the same  *)
(* time.  Each call is a sequence of awaited steps, and the steps of the   *)
(* two calls interleave: readPrdFile, fs.writeFile (which opens the temp   *)
(* file, truncating it, and then writes the data to the file it opened),   *)
(* fs.rename, and the catch block.  Both calls use the same temp path.  A  *)
(* file that is renamed or unlinked while a caller has it open stays the   *)
(* file that caller writes to.                                             *)
(***************************************************************************)
Orphan == "unlinked"

\* story.attempts.push(options.contextFilePath), after the array was created
\* if it was missing.
pushAttempt(stories, i, contextFilePath) ==
    [stories EXCEPT ![i] =
        [stories[i] EXCEPT
            !.hasAttempts = TRUE,
            !.attempts = Append(IF stories[i].hasAttempts
                                THEN stories[i].attempts ELSE <<>>,
                                contextFilePath)]]

\* The files the descriptors belong to after path from was renamed to path to.
fdAfterRename(fd, from, to) ==
    IF fd = from THEN to ELSE IF fd = to THEN Orphan ELSE fd

\* recordStoryFailure up to the call of writePrdFile.
RaceLoad(c) ==
    /\ callers[c].pc = "idle"
    /\ callers[c].outcome = ""
    /\ \E storyId \in StoryIds, ref \in Refs :
          LET prd == readPrdFile(ActiveFile)
              i == findStoryIndexById(prd.stories, storyId)
          IN IF ~prd.ok \/ i = 0
             THEN /\ callers' = [callers EXCEPT ![c] =
                        [@ EXCEPT !.storyId = storyId, !.ref = ref,
                                  !.outcome = "error"]]
                  /\ result' = Thrown("recordFailure", storyId,
                                      IF ~prd.ok THEN "read" ELSE "not_found")
             ELSE /\ callers' = [callers EXCEPT ![c] =
                        [@ EXCEPT !.pc = "writeFile", !.storyId = storyId,
                                  !.ref = ref, !.loaded = prd.stories,
                                  !.prd = pushAttempt(prd.stories, i, ref)]]
                  /\ result' = result
    /\ UNCHANGED <<files, envArchive, now, writer>>

\* fs.writeFile opens the temp path: the file is created, or the file that
\* is there is emptied.
RaceOpen(c) ==
    /\ callers[c].pc = "writeFile"
    /\ files' = writeFile(files, tempPath(ActiveFile), callers[c].prd, "partial")
    /\ callers' =
         [d \in Callers |->
            IF d = c
            THEN [callers[d] EXCEPT
                     !.pc = "writing", !.fd = tempPath(ActiveFile),
                     !.raced = \E e \in Callers \ {c} :
                                  /\ callers[e].pc = "writing"
                                  /\ callers[e].fd = tempPath(ActiveFile)
                                  /\ files[tempPath(ActiveFile)].kind # "absent"]
            ELSE IF /\ callers[d].pc = "writing"
                    /\ callers[d].fd = tempPath(ActiveFile)
                    /\ files[tempPath(ActiveFile)].kind # "absent"
                 THEN [callers[d] EXCEPT !.raced = TRUE]
                 ELSE callers[d]]
    /\ UNCHANGED <<envArchive, result, now, writer>>

\* fs.writeFile writes the data to the file it opened, wherever that file
\* is by now.  When another write ran on the same file meanwhile, the file
\* holds this caller's data or a mix of the two.
RaceWrite(c) ==
    /\ callers[c].pc = "writing"
    /\ \E outcome \in (IF callers[c].raced THEN {"ok", "partial"} ELSE {"ok"}) :
          files' = IF callers[c].fd = Orphan THEN files
                   ELSE writeFile(files, callers[c].fd, callers[c].prd, outcome)
    /\ callers' = [callers EXCEPT ![c] = [@ EXCEPT !.pc = "rename"]]
    /\ UNCHANGED <<envArchive, result, now, writer>>

\* fs.rename: fails when the temp path is gone, and otherwise puts the file
\* at the temp path in the place of the target; recordStoryFailure returns.
RaceRename(c) ==
    /\ callers[c].pc = "rename"
    /\ IF files[tempPath(ActiveFile)].kind = "absent"
       THEN /\ callers' = [callers EXCEPT ![c] = [@ EXCEPT !.pc = "catch"]]
            /\ UNCHANGED <<files, result>>
       ELSE /\ files' = rename(files, tempPath(ActiveFile), ActiveFile, FALSE)
            /\ callers' =
                 [d \in Callers |->
                    IF d = c
                    THEN [callers[d] EXCEPT
                             !.pc = "idle", !.outcome = "ok",
                             !.installed = files[tempPath(ActiveFile)],
                             !.fd = NoFile]
                    ELSE [callers[d] EXCEPT
                             !.fd = fdAfterRename(@, tempPath(ActiveFile),
                                                  ActiveFile)]]
            /\ result' = [NoResult EXCEPT
                             !.op = "recordFailure", !.id = callers[c].storyId,
                             !.ref = callers[c].ref]
    /\ UNCHANGED <<envArchive, now, writer>>

\* The catch block of writePrdFile: the temp path is unlinked, whoever wrote
\* the file there, and the error is thrown on.
RaceCatch(c) ==
    /\ callers[c].pc = "catch"
    /\ files' = unlink(files, tempPath(ActiveFile))
    /\ callers' =
         [d \in Callers |->
            IF d = c
            THEN [callers[d] EXCEPT !.pc = "idle", !.outcome = "error",
                                    !.fd = NoFile]
            ELSE [callers[d] EXCEPT
                     !.fd = IF @ = tempPath(ActiveFile) THEN Orphan ELSE @]]
    /\ result' = Thrown("recordFailure", callers[c].storyId, "write")
    /\ UNCHANGED <<envArchive, now, writer>>

InitRace ==
    /\ \E withAttempts \in BOOLEAN :
          files = [n \in FileNames \cup {TempFile} |->
                    CASE n = ActiveFile ->
                           PrdDocument(
                              IF withAttempts
                              THEN pushAttempt(InitialActive, 1, 1)
                              ELSE InitialActive)
                      [] OTHER -> AbsentFile]
    /\ envArchive = NoFile
    /\ result = NoResult
    /\ now = FirstTime
    /\ writer = NoWriter
    /\ callers = NoCallers

NextRace ==
    \E c \in Callers :
        \/ RaceLoad(c)
        \/ RaceOpen(c)
        \/ RaceWrite(c)
        \/ RaceRename(c)
        \/ RaceCatch(c)

SpecRace == InitRace /\ [][NextRace]_vars

(***************************************************************************)
(* SpecStore: the storage layer under one writer.  active.prd.json is      *)
(* absent, not valid JSON, without a stories array, unreadable or a        *)
(* document; documents are saved onto it step by step, the writer may stop *)
(* at any step, and the file is read at any point.                         *)
(***************************************************************************)
InitStore ==
    /\ \E c \in StoreContents :
          files = [n \in FileNames \cup {TempFile} |->
                    CASE n = ActiveFile -> c
                      [] n = DefaultArchive -> PrdDocument(<<ArchivedS0>>)
                      [] OTHER -> AbsentFile]
    /\ envArchive = NoFile
    /\ result = NoResult
    /\ now = FirstTime
    /\ writer = [NoWriter EXCEPT !.before = files[ActiveFile]]
    /\ callers = NoCallers

NextStore ==
    \/ SaveWriteFile
    \/ SaveRename
    \/ SaveCatch
    \/ SaveCrash
    \/ ReadPrdFile
    \/ FindNext
    \/ IsComplete

SpecStore == InitStore /\ [][NextStore]_vars

(***************************************************************************)
(* Vocabulary of the properties.                                           *)
(***************************************************************************)
Active == files[ActiveFile].stories

AllIds == {"s0", "s1", "s2", "s3", "s9"}

InFile(n, id) == \E i \in 1..Len(files[n].stories) : files[n].stories[i].id = id

\* id is in file n as a completed story.
CompletedIn(n, id) ==
    \E i \in 1..Len(files[n].stories) :
        files[n].stories[i].id = id /\ files[n].stories[i].passes

\* id is in file n as a completed story that carries a completion time.
ArchivedIn(n, id) ==
    \E i \in 1..Len(files[n].stories) :
        /\ files[n].stories[i].id = id
        /\ files[n].stories[i].passes
        /\ files[n].stories[i].completedAt # 0

\* The archive findNext reads: the one the environment configures, else
\* archive.prd.json.
ConfiguredArchive == IF envArchive # NoFile THEN envArchive ELSE DefaultArchive

\* The dependency id is completed in active, or is not in active and is
\* completed in the archive.
DependencyMet(id) ==
    \/ CompletedIn(ActiveFile, id)
    \/ ~InFile(ActiveFile, id) /\ CompletedIn(ConfiguredArchive, id)

DependenciesMet(story) ==
    \A k \in 1..Len(story.dependencies) : DependencyMet(story.dependencies[k])

\* The positions of active whose story is incomplete, unblocked and has
\* every dependency met.
CandidateSet ==
    {i \in 1..Len(Active) :
        ~Active[i].passes /\ ~Active[i].blocked /\ DependenciesMet(Active[i])}

Returned(id) == result.op = "findNext" /\ result.available /\ result.id = id

(***************************************************************************)
(* C1: a story returned by findNext is, in the files findNext read, a      *)
(* story of active that is not completed, not blocked and has every        *)
(* dependency satisfied; on active = [s1 high without dependencies,        *)
(* s2 critical depending on s1] findNext returns s1 and not the            *)
(* higher-priority s2.                                                     *)
(***************************************************************************)
C1_ReturnedStoryIsReady ==
    /\ (result.op = "findNext" /\ result.available) =>
         \E i \in 1..Len(Active) :
            /\ Active[i] = result.story
            /\ Active[i].id = result.id
            /\ ~Active[i].passes
            /\ ~Active[i].blocked
            /\ DependenciesMet(Active[i])
    /\ (result.op = "findNext" /\ Active = InitialActive) => Returned("s1")

\* findNext has answered on the scenario, where the critical s2 waits for s1.
C1_Witness ==
    /\ Returned("s1")
    /\ Active = InitialActive
    /\ Active[2].priority = "critical"

(***************************************************************************)
(* C2: findNext answers available exactly when some story of active is a   *)
(* candidate, and then returns the candidate of lowest rank under          *)
(* critical < high < medium < low, the first in list order among the       *)
(* candidates of that rank.                                                *)
(***************************************************************************)
Rank(p) == CHOOSE r \in 1..4 : <<"critical", "high", "medium", "low">>[r] = p

Winner(i) ==
    /\ i \in CandidateSet
    /\ \A j \in CandidateSet :
          \/ Rank(Active[i].priority) < Rank(Active[j].priority)
          \/ Rank(Active[i].priority) = Rank(Active[j].priority) /\ i <= j

C2_LowestRankFirstSeen ==
    result.op = "findNext" =>
        /\ result.available <=> CandidateSet # {}
        /\ result.available =>
              \E i \in 1..Len(Active) : Winner(i) /\ result.story = Active[i]

\* Three candidates: the winner is second in the list, outranks the first
\* and ties with the third.
C2_Witness ==
    /\ Returned("s2")
    /\ CandidateSet = {1, 2, 3}
    /\ Rank(Active[2].priority) < Rank(Active[1].priority)
    /\ Active[2].priority = Active[3].priority

(***************************************************************************)
(* C3: when completeAndArchive(id) succeeds on a story that was present    *)
(* and incomplete in active, the story is gone from active and is in the   *)
(* archive the call used, completed and with completedAt set; and a story  *)
(* that is archived and out of active stays so under every later call and  *)
(* is not returned by any later findNext.                                  *)
(***************************************************************************)
Moved(id) ==
    /\ result.op = "markComplete"
    /\ result.ok
    /\ result.mode = "moved"
    /\ result.id = id

Archived(id) ==
    /\ ~InFile(ActiveFile, id)
    /\ \E n \in ArchiveNames : ArchivedIn(n, id)

C3_ArchivedForGood ==
    [][/\ (/\ Moved(result.id)'
           /\ InFile(ActiveFile, result'.id)
           /\ ~CompletedIn(ActiveFile, result'.id)) =>
                /\ ~InFile(ActiveFile, result.id)'
                /\ ArchivedIn(result.archive, result.id)'
       /\ \A id \in AllIds :
             Archived(id) => (Archived(id)' /\ ~Returned(id)')]_vars

\* s1 has been archived, more calls have been made and findNext now
\* returns another story.
C3_Witness ==
    /\ Archived("s1")
    /\ Returned("s2")
    /\ Active[1].blockedAt = 0
    /\ Active[1].attempts # <<>>

(***************************************************************************)
(* C4: after completeAndArchive(s1) succeeds, with whichever archive file  *)
(* the call used, the next findNext finds the dependency of s2 on s1       *)
(* satisfied in the archive: with s2 incomplete and unblocked in active,   *)
(* findNext returns s2.                                                    *)
(***************************************************************************)
C4_DependencySatisfiedByArchive ==
    (/\ Moved("s1")
     /\ \E i \in 1..Len(Active) :
           /\ Active[i].id = "s2"
           /\ Active[i].dependencies = <<"s1">>
           /\ ~Active[i].passes
           /\ ~Active[i].blocked)
    => (findNextStory.available /\ findNextStory.id = "s2")

(***************************************************************************)
(* C5: completeAndArchive persists the archive before active: a call that  *)
(* stops between its two writes leaves the story in both files.            *)
(***************************************************************************)
C5_ArchiveWrittenFirst ==
    [][(/\ result'.op = "markComplete"
        /\ ~result'.ok
        /\ files' # files)
       => (/\ InFile(ActiveFile, result.id)'
           /\ \E n \in ArchiveNames : InFile(n, result.id)')]_vars

(***************************************************************************)
(* C6: no story is lost: an id that is in active or in an archive is       *)
(* still in active or in an archive after every call, failed calls         *)
(* included.                                                               *)
(***************************************************************************)
Present(id) == \E n \in FileNames : InFile(n, id)

C6_NoStoryLost == [][\A id \in AllIds : Present(id) => Present(id)']_vars

(***************************************************************************)
(* C7: story ids are unique within active and within every archive, and    *)
(* no id is in two files: a story lives in exactly one partition.          *)
(***************************************************************************)
Places(id) ==
    {<<n, i>> \in FileNames \X (1..4) :
        i <= Len(files[n].stories) /\ files[n].stories[i].id = id}

C7_OnePartition ==
    /\ \A n \in FileNames : Len(files[n].stories) <= 4
    /\ \A id \in AllIds : Cardinality(Places(id)) <= 1

\* s1 was moved to an archive while s2, blocked and with a recorded
\* failure, is still in active.
C7_Witness ==
    /\ Moved("s1")
    /\ Archived("s1")
    /\ InFile(ActiveFile, "s2")
    /\ Active[1].blocked
    /\ Len(Active[1].attempts) = 1

(***************************************************************************)
(* C8: dependency resolution returns satisfied iff every dependency id     *)
(* names a completed story of active, or names no story of active and      *)
(* names a completed story of the archive.                                 *)
(***************************************************************************)
ActiveStory(id) == Active[CHOOSE i \in 1..Len(Active) : Active[i].id = id]

C8_ResolutionRule ==
    result.op = "areDependenciesSatisfied" =>
        (result.satisfied <=> DependenciesMet(ActiveStory(result.id)))

\* The resolver rejected s3 = [s0, s1]: s0 is completed in the archive but
\* s1 is incomplete in active although the archive holds a completed copy.
C8_Witness ==
    /\ result.op = "areDependenciesSatisfied"
    /\ result.id = "s3"
    /\ ~result.satisfied
    /\ Active[3].dependencies = <<"s0", "s1">>
    /\ CompletedIn(ConfiguredArchive, "s0")
    /\ CompletedIn(ConfiguredArchive, "s1")
    /\ InFile(ActiveFile, "s1")
    /\ ~CompletedIn(ActiveFile, "s1")

(***************************************************************************)
(* C9: a story with a dependency that names no story in active or the      *)
(* archive, an incomplete story that depends on itself, and a story on a   *)
(* cycle of incomplete stories are not ready: the resolver rejects them,   *)
(* findNext does not return them, and findNext answers normally (never     *)
(* with reason 'error').                                                   *)
(***************************************************************************)
HasMissingDependency(story) ==
    \E k \in 1..Len(story.dependencies) :
        /\ ~InFile(ActiveFile, story.dependencies[k])
        /\ ~InFile(ConfiguredArchive, story.dependencies[k])

\* j is an incomplete story of active that i depends on.
WaitsFor(i, j) ==
    /\ ~Active[j].passes
    /\ \E k \in 1..Len(Active[i].dependencies) :
          Active[i].dependencies[k] = Active[j].id

RECURSIVE Reaches(_, _, _)
Reaches(i, j, n) ==
    \/ WaitsFor(i, j)
    \/ n > 1 /\ \E m \in 1..Len(Active) : WaitsFor(i, m) /\ Reaches(m, j, n - 1)

\* i is incomplete and on a cycle of incomplete stories (a self-dependency
\* is a cycle of length one).
OnCycle(i) == ~Active[i].passes /\ Reaches(i, i, Len(Active))

NotReady(i) == HasMissingDependency(Active[i]) \/ OnCycle(i)

C9_MissingAndCyclicNotReady ==
    /\ result.op = "findNext" =>
         /\ result.reason # "error"
         /\ \A i \in 1..Len(Active) : NotReady(i) => ~Returned(Active[i].id)
    /\ result.op = "areDependenciesSatisfied" =>
         \A i \in 1..Len(Active) :
            (NotReady(i) /\ Active[i].id = result.id) => ~result.satisfied

\* findNext answered normally with s1, s2, s3 on a cycle of three.
C9_Witness ==
    /\ result.op = "findNext"
    /\ ~result.available
    /\ result.reason = "no_stories_available"
    /\ WaitsFor(1, 3) /\ WaitsFor(3, 2) /\ WaitsFor(2, 1)
    /\ \A i \in 1..3 : ~Active[i].blocked

\* findNext answered normally while s2 names the unknown s9.
C9_WitnessMissing ==
    /\ Returned("s1")
    /\ HasMissingDependency(Active[2])
    /\ ~Active[2].passes

(***************************************************************************)
(* C10: a successful recordFailure(id, ref) leaves the attempts of the     *)
(* story equal to its prior attempts (none when the list was absent)       *)
(* followed by ref, and reports the new length; N successive calls thus    *)
(* append ref_1 .. ref_N in call order and report k + 1 .. k + N.          *)
(***************************************************************************)
C10_AppendsInCallOrder ==
    [][(result'.op = "recordFailure" /\ result'.ok) =>
          \E i \in 1..Len(Active) :
             /\ Active[i].id = result'.id
             /\ Len(Active') = Len(Active)
             /\ Active'[i].id = result'.id
             /\ Active'[i].hasAttempts
             /\ Active'[i].attempts = Append(Active[i].attempts, result'.ref)
             /\ result'.attemptCount = Len(Active[i].attempts) + 1]_vars

\* The second of two successive calls on s1: document 2 was recorded before
\* document 1.
C10_Witness ==
    /\ result.op = "recordFailure"
    /\ result.ok
    /\ result.id = "s1"
    /\ result.attemptCount = 2
    /\ result.ref = 1
    /\ Active[1].attempts = <<2, 1>>

(***************************************************************************)
(* C11: blockStory on a story that is blocked already succeeds (when its   *)
(* write does); every successful blockStory(id) leaves the files as they   *)
(* were except that the story is blocked with blockedAt the time of the    *)
(* call, so that a second call changes nothing but blockedAt; and findNext *)
(* does not return the story after the call.                               *)
(***************************************************************************)
C11_BlockIdempotent ==
    [][/\ \A i \in 1..Len(Active) :
             Active[i].blocked => blockStory(Active[i].id, now, "ok").r.ok
       /\ (result'.op = "blockStory" /\ result'.ok) =>
             \E i \in 1..Len(Active) :
                /\ Active[i].id = result'.id
                /\ files' = [files EXCEPT
                               ![ActiveFile].stories[i].blocked = TRUE,
                               ![ActiveFile].stories[i].blockedAt = now]
                /\ Active[i].blocked =>
                      files' = [files EXCEPT
                                  ![ActiveFile].stories[i].blockedAt = now]
                /\ ~(findNextStory.available /\ findNextStory.id = result.id)']_vars

\* s1 has been blocked twice: the only stamp in the files is the one of the
\* later instant, and the first stamp a call writes is the earlier one.
C11_Witness ==
    /\ result.op = "blockStory"
    /\ result.ok
    /\ result.id = "s1"
    /\ Len(Active) = 2
    /\ Active[1].blocked
    /\ Active[1].blockedAt = LastTime
    /\ Active[2].blockedAt = 0
    /\ \A i \in 1..2 : Active[i].completedAt = 0

(***************************************************************************)
(* C12: isComplete reports complete iff every story of active is           *)
(* completed, totalStories, completedStories and blockedStories as the     *)
(* respective counts, and remainingStories as the number of stories that   *)
(* are not completed, blocked ones included.                               *)
(***************************************************************************)
C12_IsCompleteCounts ==
    result.op = "isComplete" =>
        /\ result.complete = (\A i \in 1..Len(Active) : Active[i].passes)
        /\ result.totalStories = Len(Active)
        /\ result.completedStories =
               Cardinality({i \in 1..Len(Active) : Active[i].passes})
        /\ result.blockedStories =
               Cardinality({i \in 1..Len(Active) : Active[i].blocked})
        /\ result.remainingStories =
               Cardinality({i \in 1..Len(Active) : ~Active[i].passes})

(***************************************************************************)
(* C13: when writePrdFile ends, it has either returned, with the target    *)
(* holding the new document, or thrown a write error, with the target      *)
(* holding exactly what it held before the call; in both cases no temp     *)
(* file is left.  A failure of fs.writeFile or of fs.rename thus leaves    *)
(* the target untouched and the temp file removed.                         *)
(***************************************************************************)
C13_FailedSaveLeavesTarget ==
    [][(writer.pc # "idle" /\ writer'.pc = "idle" /\ result'.op = "writePrdFile") =>
          /\ files'[TempFile] = AbsentFile
          /\ IF result'.ok
             THEN files'[ActiveFile] = PrdDocument(writer.prd)
             ELSE /\ result'.reason = "write"
                  /\ files'[ActiveFile] = writer.before]_vars

\* A save of another document has failed on a target that held a story.
C13_Witness ==
    /\ result.op = "writePrdFile"
    /\ ~result.ok
    /\ writer.pc = "idle"
    /\ files[ActiveFile].kind = "doc"
    /\ Len(files[ActiveFile].stories) = 1
    /\ Len(writer.prd) = 2

(***************************************************************************)
(* C14: at every point of a save by the one writer, and after the writer   *)
(* stopped at any step, reading the target gives either what the target    *)
(* held when the save began or the whole new document.                     *)
(***************************************************************************)
C14_OldOrNew ==
    files[ActiveFile] \in {writer.before, PrdDocument(writer.prd)}

\* The writer stopped after a partial fs.writeFile: the temp file is left
\* behind, partly written, next to a target of one story.
C14_Witness ==
    /\ result.op = "crash"
    /\ files[TempFile] = MalformedFile
    /\ files[ActiveFile].kind = "doc"
    /\ Len(files[ActiveFile].stories) = 1
    /\ Len(writer.prd) = 2

(***************************************************************************)
(* C15: readPrdFile fails with a not-found error on a file that does not   *)
(* exist, with a malformed error on a file that is not valid JSON or has   *)
(* no stories array, succeeds on a document, the one with an empty stories *)
(* list included, and never changes a file.                                *)
(***************************************************************************)
C15_LoadErrors ==
    [][(result'.op = "readPrdFile" /\ writer' = writer) =>
          /\ files' = files
          /\ files[ActiveFile].kind = "absent" =>
                (~result'.ok /\ result'.error = "not_found")
          /\ files[ActiveFile].kind \in {"malformed", "no_stories"} =>
                (~result'.ok /\ result'.error \in {"invalid_json", "invalid_structure"})
          /\ files[ActiveFile].kind = "doc" =>
                (result'.ok /\ result'.totalStories = Len(files[ActiveFile].stories))]_vars

\* The document with an empty stories list has been read.
C15_Witness ==
    /\ result.op = "readPrdFile"
    /\ result.ok
    /\ result.totalStories = 0
    /\ files[ActiveFile] = PrdDocument(<<>>)

(***************************************************************************)
(* C16: markComplete, blockStory and recordFailure, called with an id that *)
(* names no story of active, each throw a not-found error that carries the *)
(* id and leave every file as it was: nothing is written and no archive    *)
(* file is created.                                                        *)
(***************************************************************************)
NotFound(out, id) ==
    /\ ~out.r.ok
    /\ out.r.reason = "not_found"
    /\ out.r.id = id
    /\ out.f = files

C16_NotFoundChangesNothing ==
    \A id \in StoryIds \cup {"s9"} :
        ~InFile(ActiveFile, id) =>
            /\ \A archiveFile \in {NoFile, DoneFile}, w \in WriteOutcomes :
                  NotFound(markStoryComplete(id, archiveFile, now, w), id)
            /\ \A w \in WriteOutcomes : NotFound(blockStory(id, now, w), id)
            /\ \A ref \in Refs, w \in WriteOutcomes :
                  NotFound(recordStoryFailure(id, ref, w), id)

\* s1 is in archive.prd.json and a further markComplete of s1 has failed;
\* done.json, which the call may have named, does not exist.
C16_Witness ==
    /\ result.op = "markComplete"
    /\ ~result.ok
    /\ result.reason = "not_found"
    /\ result.id = "s1"
    /\ ArchivedIn(DefaultArchive, "s1")
    /\ files[DoneFile].kind = "absent"

C18_NoExceptionEscapes ==
    result.op \in {"findNext", "markComplete", "recordFailure", "blockStory"}
        => result.ok

(***************************************************************************)
(* C19: an archive file that exists but is malformed is never replaced,    *)
(* and no markComplete succeeds in moving a story into it: the call fails  *)
(* and leaves active and the archive as they were.                         *)
(***************************************************************************)
C19_MalformedArchiveSurfaced ==
    [][\A n \in ArchiveNames :
          files[n].kind = "malformed" =>
              /\ files'[n] = files[n]
              /\ ~(/\ result'.op = "markComplete"
                    /\ result'.ok
                    /\ result'.archive = n)]_vars

(***************************************************************************)
(* C20: every completed story has completedAt set, and once a story is     *)
(* completed no call changes its completedAt, a repeated markComplete of   *)
(* the same id included.                                                   *)
(***************************************************************************)
C20_CompletedAtSetOnce ==
    [][\A n \in FileNames : \A i \in 1..Len(files[n].stories) :
          files[n].stories[i].passes =>
              /\ files[n].stories[i].completedAt # 0
              /\ \A m \in FileNames : \A j \in 1..Len(files'[m].stories) :
                    files'[m].stories[j].id = files[n].stories[i].id =>
                        files'[m].stories[j].completedAt =
                            files[n].stories[i].completedAt]_vars

(***************************************************************************)
(* C21: the attempts list of a story never shrinks: for every story of     *)
(* every file before a call, each story with that id in any file after the *)
(* call has an attempts list that the earlier list is a prefix of, also    *)
(* when the call moved the story from active to an archive.                *)
(***************************************************************************)
IsPrefix(a, b) == Len(a) <= Len(b) /\ SubSeq(b, 1, Len(a)) = a

C21_AttemptsNeverShrink ==
    [][files' # files =>
          \A n \in FileNames : \A i \in 1..Len(files[n].stories) :
             \A m \in FileNames : \A j \in 1..Len(files'[m].stories) :
                files'[m].stories[j].id = files[n].stories[i].id =>
                    IsPrefix(files[n].stories[i].attempts,
                             files'[m].stories[j].attempts)]_vars

\* s1 has just been moved to archive.prd.json with the two failures that
\* were recorded on it.
C21_Witness ==
    /\ Moved("s1")
    /\ \E i \in 1..Len(files[DefaultArchive].stories) :
          /\ files[DefaultArchive].stories[i].id = "s1"
          /\ Len(files[DefaultArchive].stories[i].attempts) = 2

(***************************************************************************)
(* C22: blockStory(id) changes nothing but the blocked and blockedAt       *)
(* fields of the story it names: every other field of that story, every    *)
(* other story of active, the order and number of the stories of active    *)
(* and every archive file are what they were.                              *)
(***************************************************************************)
C22_BlockChangesTwoFields ==
    \A id \in StoryIds :
        LET out == blockStory(id, now, "ok")
            i == findStoryIndexById(Active, id)
            after == out.f[ActiveFile].stories
        IN out.r.ok =>
              /\ \A n \in ArchiveNames : out.f[n] = files[n]
              /\ out.f[ActiveFile].kind = "doc"
              /\ Len(after) = Len(Active)
              /\ \A j \in 1..Len(Active) : j # i => after[j] = Active[j]
              /\ [after[i] EXCEPT !.blocked = Active[i].blocked,
                                  !.blockedAt = Active[i].blockedAt] = Active[i]
              /\ after[i].blocked
              /\ after[i].blockedAt = now

\* s1, first of the two stories of active and with a failure recorded, has
\* been blocked.
C22_Witness ==
    /\ result.op = "blockStory"
    /\ result.ok
    /\ result.id = "s1"
    /\ Len(Active) = 2
    /\ Active[1].id = "s1"
    /\ Active[1].blocked
    /\ Active[1].attempts # <<>>
    /\ ~Active[2].blocked

NoArchiveConfigured ==
    envArchive = NoFile /\ files[DefaultArchive].kind = "absent"

C25_AttemptCountIsLength ==
    (\/ result.op = "findNext" /\ result.available
     \/ result.op = "getDetails" /\ result.found)
    => \E i \in 1..Len(Active) :
          /\ Active[i].id = result.id
          /\ result.story = Active[i]
          /\ result.attemptCount = Len(Active[i].attempts)
          /\ result.previousAttempts = Active[i].attempts
          /\ ~Active[i].hasAttempts =>
                (result.attemptCount = 0 /\ result.previousAttempts = <<>>)

\* Two failures were recorded on s2, document 2 before document 1, and
\* getDetails reports both.
C25_Witness ==
    /\ result.op = "getDetails"
    /\ result.found
    /\ result.id = "s2"
    /\ result.attemptCount = 2
    /\ result.previousAttempts = <<2, 1>>

TypeStories(k) ==
    IF files[getAllPrdPaths[k].active].kind = "doc"
    THEN files[getAllPrdPaths[k].active].stories ELSE <<>>

\* The dependency is completed in the first active file that holds it, or
\* is in no active file and is completed in some archive.
HierarchyDependencyMet(id) ==
    \/ \E k \in 1..Len(getAllPrdPaths) :
          /\ \E i \in 1..Len(TypeStories(k)) :
                TypeStories(k)[i].id = id /\ TypeStories(k)[i].passes
          /\ \A j \in 1..(k - 1) : \A i \in 1..Len(TypeStories(j)) :
                TypeStories(j)[i].id # id
    \/ /\ \A k \in 1..Len(getAllPrdPaths) : \A i \in 1..Len(TypeStories(k)) :
             TypeStories(k)[i].id # id
       /\ \E k \in 1..Len(getAllPrdPaths) :
             files[getAllPrdPaths[k].archive].kind = "doc"
                /\ CompletedIn(getAllPrdPaths[k].archive, id)

TypeCandidateSet(k) ==
    {i \in 1..Len(TypeStories(k)) :
        /\ ~TypeStories(k)[i].passes
        /\ ~TypeStories(k)[i].blocked
        /\ \A d \in 1..Len(TypeStories(k)[i].dependencies) :
              HierarchyDependencyMet(TypeStories(k)[i].dependencies[d])}

C27_WitnessFallThrough ==
    /\ result.op = "findNextInHierarchy"
    /\ result.available
    /\ result.prdType = "feature"
    /\ Len(TypeStories(1)) = 2
    /\ TypeCandidateSet(1) = {}

(***************************************************************************)
(* C28: when findNext answers no_stories_available, its message is "All    *)
(* stories are either completed or blocked" exactly when active holds no   *)
(* story that is both incomplete and unblocked; otherwise the number it    *)
(* reports as waiting on dependencies is the number of incomplete,         *)
(* unblocked stories; and incompleteStories is never negative.             *)
(***************************************************************************)
OpenStories ==
    {i \in 1..Len(Active) : ~Active[i].passes /\ ~Active[i].blocked}

C28_DiagnosticsAgree ==
    (result.op = "findNext" /\ result.reason = "no_stories_available") =>
        /\ result.message = "All stories are either completed or blocked"
              <=> OpenStories = {}
        /\ OpenStories # {} =>
              /\ result.message = "incomplete stories are waiting on dependencies"
              /\ result.storiesWaitingOnDependencies = Cardinality(OpenStories)
        /\ result.incompleteStories >= 0

(***************************************************************************)
(* C29: findNext tells an absent archive from one that cannot be read or   *)
(* parsed: when the archive exists but is not a readable PRD document and  *)
(* a story that is neither completed nor blocked has a dependency to be    *)
(* looked up in it, the result is a structured error, not an answer that   *)
(* took the dependency for unsatisfied.                                    *)
(***************************************************************************)
ArchiveBroken ==
    files[ConfiguredArchive].kind \notin {"absent", "doc"}

\* Some open story's first dependency is not in active, so that the
\* archive is consulted for it.
ArchiveConsulted ==
    /\ files[ActiveFile].kind = "doc"
    /\ \E i \in 1..Len(Active) :
          /\ ~Active[i].passes
          /\ ~Active[i].blocked
          /\ Len(Active[i].dependencies) > 0
          /\ ~InFile(ActiveFile, Active[i].dependencies[1])

C29_BrokenArchiveIsError ==
    (result.op = "findNext" /\ ArchiveBroken /\ ArchiveConsulted) =>
        result.reason = "error"

(***************************************************************************)
(* C30: in every reachable state, every completed story, in active or in   *)
(* an archive, has all of its dependencies completed.                      *)
(***************************************************************************)
CompletedSomewhere(id) == \E n \in FileNames : CompletedIn(n, id)

C30_CompletedHasCompletedDeps ==
    \A n \in FileNames : \A i \in 1..Len(files[n].stories) :
        files[n].stories[i].passes =>
            \A d \in 1..Len(files[n].stories[i].dependencies) :
                CompletedSomewhere(files[n].stories[i].dependencies[d])

(***************************************************************************)
(* C31: completing again a story that is already in the archive and no     *)
(* longer in active succeeds and changes neither file, so that the archive *)
(* holds no second copy of the story.                                      *)
(***************************************************************************)
AlreadyArchived(id) ==
    /\ files[ActiveFile].kind = "doc"
    /\ ~InFile(ActiveFile, id)
    /\ \E n \in ArchiveNames : files[n].kind = "doc" /\ CompletedIn(n, id)

C31_RetryIsNoOp ==
    \A id \in StoryIds :
        AlreadyArchived(id) =>
            \A archiveFile \in {NoFile, DoneFile} :
                LET out == markStoryComplete(id, archiveFile, now, "ok") IN
                out.r.ok /\ out.f = files

(***************************************************************************)
(* C32: with two callers on the same active file the atomic rename keeps   *)
(* the file from being corrupted, though not from losing an update: at     *)
(* every point of the two calls active.prd.json reads as a PRD document.   *)
(***************************************************************************)
C32_TargetStaysReadable ==
    files[ActiveFile].kind = "doc"

\* Both calls loaded the same stories and both returned success.
BothSucceededOnStaleState ==
    /\ \A c \in Callers : callers[c].pc = "idle" /\ callers[c].outcome = "ok"
    /\ callers[1].loaded = callers[2].loaded
    /\ callers[1].storyId = callers[2].storyId
    /\ callers[1].ref # callers[2].ref

\* The lost update of the claim: both calls succeeded on the same story and
\* the attempts on file hold the context file of only one of them.
C32_LostUpdateReached ==
    /\ BothSucceededOnStaleState
    /\ files[ActiveFile].kind = "doc"
    /\ \E i \in 1..Len(Active) :
          /\ Active[i].id = callers[1].storyId
          /\ \E c \in Callers :
                Active[i].attempts = Append(
                    IF callers[c].loaded[i].hasAttempts
                    THEN callers[c].loaded[i].attempts ELSE <<>>,
                    callers[c].ref)

(***************************************************************************)
(* C36: with two saves to the same target under way at the same time, a    *)
(* save that returned success has installed, by its rename, exactly the    *)
(* complete document it was given.                                         *)
(***************************************************************************)
C36_SuccessInstalledOwnContent ==
    \A c \in Callers :
        callers[c].outcome = "ok" =>
            callers[c].installed = PrdDocument(callers[c].prd)

(***************************************************************************)
(* C33: the id addPrd gives a new story is in neither partition: an id     *)
(* made by auto-increment is the id of no story in active or in an         *)
(* archive, and an explicit id that some story already has is rejected     *)
(* with the files unchanged.                                               *)
(***************************************************************************)
C33_AddedIdIsFresh ==
    \A id \in AddIds, dependencies \in AddDependencies :
        LET out == addPrd(id, "medium", dependencies, "ok") IN
        /\ out.r.ok => ~Present(out.r.id)
        /\ (id # NoId /\ Present(id)) => (~out.r.ok /\ out.f = files)

(***************************************************************************)
(* C34: no operation clears a flag: over every step of findNext,           *)
(* markComplete, blockStory and recordFailure, every story that is         *)
(* completed before the step is completed wherever it is after it, and     *)
(* every story that is blocked before is blocked after; a blocked story    *)
(* that is completed stays blocked.                                        *)
(***************************************************************************)
FlagsKept(fs) ==
    \A n \in FileNames : \A i \in 1..Len(files[n].stories) :
        \A m \in FileNames : \A j \in 1..Len(fs[m].stories) :
            fs[m].stories[j].id = files[n].stories[i].id =>
                /\ files[n].stories[i].passes => fs[m].stories[j].passes
                /\ files[n].stories[i].blocked => fs[m].stories[j].blocked

C34_FlagsNeverCleared ==
    [][files' # files => FlagsKept(files')]_vars

\* A blocked story has been completed in place and is completed and blocked.
C34_Witness ==
    /\ result.op = "markComplete"
    /\ result.ok
    /\ result.mode = "inplace"
    /\ \E i \in 1..Len(Active) :
          /\ Active[i].id = result.id
          /\ Active[i].passes
          /\ Active[i].blocked

(***************************************************************************)
(* C35: under the orchestration policy, with one caller and every write    *)
(* succeeding, the loop ends: findNext eventually reports that no story is *)
(* available and nothing is called after that, and no story ever has more  *)
(* than six recorded failures.                                             *)
(***************************************************************************)
LoopEnded == result.op = "findNext" /\ ~result.available

C35_LoopTerminates ==
    /\ <>[]LoopEnded
    /\ [](\A n \in FileNames : \A i \in 1..Len(files[n].stories) :
             Len(files[n].stories[i].attempts) <= MaxAttempts)

\* The loop has ended with a story that was blocked after six failures and a
\* story that was completed.
C35_Witness ==
    /\ LoopEnded
    /\ \E i \in 1..Len(Active) :
          Active[i].blocked /\ Len(Active[i].attempts) = MaxAttempts
    /\ \E n \in FileNames : \E i \in 1..Len(files[n].stories) :
          files[n].stories[i].passes /\ files[n].stories[i].id # "s0"

(***************************************************************************)
(* C37: findNext, getDetails, getAttempts and isComplete are read-only:    *)
(* whatever they return, a call changes no file, the temp file included,   *)
(* and the same call made again right after it returns the same result.    *)
(***************************************************************************)
ReadOperations == {"findNext", "getDetails", "getAttempts", "isComplete"}

\* What the call that produced the result returns when it is made now.
SameCallAgain ==
    CASE result.op = "findNext" -> findNextStory
      [] result.op = "getDetails" -> getStoryDetails(result.id)
      [] result.op = "getAttempts" -> getStoryAttempts(result.id)
      [] OTHER -> checkIsComplete

C37_ReadsChangeNothing ==
    [][result'.op \in ReadOperations =>
          /\ files' = files
          /\ result' = SameCallAgain']_vars

\* getAttempts has answered for a story that has no attempts array on file,
\* after a story was blocked, and there is no temp file.
C37_Witness ==
    /\ result.op = "getAttempts"
    /\ result.found
    /\ \E i \in 1..Len(Active) :
          Active[i].id = result.id /\ ~Active[i].hasAttempts
    /\ files[TempFile].kind = "absent"
    /\ \E i \in 1..Len(Active) : Active[i].blocked

====
